---- MODULE Spec2Model ----
(***************************************************************************)
(* Model of the two-layer perceptron of lab1/lab1.py (class                *)
(* TwoLayerPerceptron): weight initialisation, forward pass, backward      *)
(* pass, weight update, in-place prediction, accuracy and the training     *)
(* loop with its stopping rule.                                            *)
(*                                                                         *)
(* Numbers.  numpy works on IEEE doubles; here every real is a fixed-point *)
(* integer counting multiples of 1/Q, so 1.0 is One = Q.  Products are     *)
(* rescaled by Q with truncation toward zero.  The logistic activation     *)
(* 2/(1+exp(-x)) - 1 = tanh(x/2) is replaced by its saturating             *)
(* piecewise-linear counterpart: odd, monotone, 0 at 0, slope 1/2 at the   *)
(* origin, strictly inside (-1, 1), and of the same sign as x.             *)
(*                                                                         *)
(* Arrays.  A numpy array is an object; two names may denote the same      *)
(* object.  heap maps an object's reference to its current contents (a     *)
(* sequence of rows), so that an in-place write through one name is seen   *)
(* through every other name of the same object.                            *)
(***************************************************************************)
EXTENDS Integers, Sequences, FiniteSets, TLC

VARIABLES
    heap,      \* reference -> contents of the array object (<< >>: none yet)
    self,      \* the TwoLayerPerceptron instance: h, epochs, eta
    pc,        \* position of train / of the caller of predict
    e,         \* loop variable of train: index of the epoch being run
    acc,       \* last measured accuracy, [wrong, total]; total = 0: none yet
    updates,   \* history: number of completed weight updates (V and W)
    measured,  \* history: <<V, W>> as they were when acc was measured
    raised,    \* the exception that ended train ("" if none)
    threshold, \* threshold argument of the caller's predict calls
    ret,       \* reference returned by the last predict call
    calls,     \* number of predict calls the caller has made on O
    O0,        \* history: contents of the caller's O before the first call
    first,     \* history: labels returned by the first predict call
    result,    \* what train returned to its caller (NotReturned before)
    before,    \* history: <<V, W>> as the epoch's forward pass read them
    dbn,       \* DeepBeliefNet.train_greedylayerwise: its state
    rbf,       \* RBFNN.competitive_learning: its state
    data,      \* create_training_examples_and_targets: its state
    perc,      \* Perceptron.train: its state
    delta      \* DeltaClassifier.train: its state

vars == <<heap, self, pc, e, acc, updates, measured, raised,
          threshold, ret, calls, O0, first, result, before,
          dbn, rbf, data, perc, delta>>

trainVars == <<self, pc, e, acc, updates, measured, raised, result, before>>
callerVars == <<threshold, ret, calls, O0, first>>
labVars == <<dbn, rbf, data, perc, delta>>

----------------------------------------------------------------------------
(* Bounds of the model *)

Q == 4                \* fixed-point resolution: 1.0 is Q
MaxEpochs == 2        \* largest epoch budget given to the constructor
MaxRows == 3          \* largest number of rows of X and of T

One == Q

----------------------------------------------------------------------------
(* numpy arithmetic on fixed-point matrices *)

\* x / d rounded toward zero
Trunc(x, d) == IF x >= 0 THEN x \div d ELSE -((-x) \div d)

Max(a, b) == IF a >= b THEN a ELSE b

Min(a, b) == IF a <= b THEN a ELSE b

RECURSIVE SumTo(_, _)
SumTo(f, n) == IF n = 0 THEN 0 ELSE f[n] + SumTo(f, n - 1)

Rows(M) == Len(M)

Cols(M) == Len(M[1])

Shape(M) == <<Rows(M), Cols(M)>>

\* M.T
Transpose(M) == [j \in 1..Cols(M) |-> [i \in 1..Rows(M) |-> M[i][j]]]

\* A @ B is defined when the inner dimensions agree, else numpy raises
CanMatMul(A, B) == Cols(A) = Rows(B)

\* A @ B
MatMul(A, B) ==
    [i \in 1..Rows(A) |-> [j \in 1..Cols(B) |->
        Trunc(SumTo([l \in 1..Cols(A) |-> A[i][l] * B[l][j]], Cols(A)), Q)]]

\* numpy broadcasting of two 2-d operands: each axis must agree or be 1
CanBroadcast(A, B) ==
    /\ Rows(A) = Rows(B) \/ Rows(A) = 1 \/ Rows(B) = 1
    /\ Cols(A) = Cols(B) \/ Cols(A) = 1 \/ Cols(B) = 1

\* element (i, j) of M stretched to a broadcast shape
At(M, i, j) == M[IF Rows(M) = 1 THEN 1 ELSE i][IF Cols(M) = 1 THEN 1 ELSE j]

BRows(A, B) == Max(Rows(A), Rows(B))

BCols(A, B) == Max(Cols(A), Cols(B))

\* A - B with broadcasting
Sub(A, B) ==
    [i \in 1..BRows(A, B) |-> [j \in 1..BCols(A, B) |->
        At(A, i, j) - At(B, i, j)]]

\* A + B with broadcasting
Add(A, B) ==
    [i \in 1..BRows(A, B) |-> [j \in 1..BCols(A, B) |->
        At(A, i, j) + At(B, i, j)]]

\* np.multiply(A, B) with broadcasting
Multiply(A, B) ==
    [i \in 1..BRows(A, B) |-> [j \in 1..BCols(A, B) |->
        Trunc(At(A, i, j) * At(B, i, j), Q)]]

\* scalar * M
Scale(c, M) ==
    [i \in 1..Rows(M) |-> [j \in 1..Cols(M) |-> Trunc(c * M[i][j], Q)]]

\* the n x c matrices whose entries are taken from S
Matrices(n, c, S) == [1..n -> [1..c -> S]]

----------------------------------------------------------------------------
(* class TwoLayerPerceptron *)

\* references of the array objects
Refs == {"X", "t", "V", "W", "h", "o", "delta_o", "delta_h", "p", "O"}

\* no array object exists yet under a reference
NoArray == << >>

\* train has not returned
NotReturned == << >>

\* Python's None
None == <<"None">>

\* state of a part of the repository that is not running
Off == [pc |-> "off"]

\* values np.random.normal may draw for a weight
WeightDraws == {-One, One}

\* hidden widths given to the constructor
HiddenWidths == {1, 2}

\* learning rates given to the constructor
LearningRates == {One}

\* 2 / (1 + np.exp(-x)) - 1 of one number
phi(x) ==
    IF x = 0 THEN 0
    ELSE IF x > 0 THEN Min(Q - 1, (x + 1) \div 2)
    ELSE -Min(Q - 1, (1 - x) \div 2)

\* the activation function applied to every element
activation_function(x) ==
    [i \in 1..Rows(x) |-> [j \in 1..Cols(x) |-> phi(x[i][j])]]

\* np.multiply((1 + x), (1 - x)) / 2
d_activation_function(x) ==
    [i \in 1..Rows(x) |-> [j \in 1..Cols(x) |->
        Trunc(Trunc((One + x[i][j]) * (One - x[i][j]), Q), 2)]]

\* the pairs <<V, W>> initialize_weights may assign for X of d columns:
\* V of shape (d, h) and W of shape (h, 1)
initialize_weights(X, t, h) ==
    Matrices(Cols(X), h, WeightDraws) \X Matrices(h, 1, WeightDraws)

\* h = act(X @ V), o = act(h @ W): two new arrays, V and W only read
forward_pass(X, V, W) ==
    LET h == activation_function(MatMul(X, V))
        o == activation_function(MatMul(h, W))
    IN  [h |-> h, o |-> o]

\* X[X >= threshold] = 1 acting on the contents M
SetAtLeast(M, thr) ==
    [i \in 1..Rows(M) |-> [j \in 1..Cols(M) |->
        IF M[i][j] >= thr THEN One ELSE M[i][j]]]

\* X[X < threshold] = -1 acting on the contents M
SetBelow(M, thr) ==
    [i \in 1..Rows(M) |-> [j \in 1..Cols(M) |->
        IF M[i][j] < thr THEN -One ELSE M[i][j]]]

\* predict with the comparison of the first assignment made strict
predict_strict(hp, X, thr) ==
    LET M1 == [i \in 1..Rows(hp[X]) |-> [j \in 1..Cols(hp[X]) |->
                  IF hp[X][i][j] > thr THEN One ELSE hp[X][i][j]]]
    IN  [heap |-> [hp EXCEPT ![X] = SetBelow(M1, thr)], ret |-> X]

\* predict with the two labels exchanged
predict_flipped(hp, X, thr) ==
    [heap |-> [hp EXCEPT ![X] =
                  [i \in 1..Rows(hp[X]) |-> [j \in 1..Cols(hp[X]) |->
                      IF hp[X][i][j] >= thr THEN -One ELSE One]]],
     ret |-> X]

\* predict labelling the elements below the threshold 0 instead of -1
predict_zero_one(hp, X, thr) ==
    [heap |-> [hp EXCEPT ![X] =
                  [i \in 1..Rows(hp[X]) |-> [j \in 1..Cols(hp[X]) |->
                      IF hp[X][i][j] >= thr THEN One ELSE 0]]],
     ret |-> X]

\* predict writing the labels into a new array and returning that one
predict_copy(hp, X, thr) ==
    [heap |-> [hp EXCEPT !["p"] = SetBelow(SetAtLeast(hp[X], thr), thr)],
     ret |-> "p"]

\* predict(X, threshold): the two masked assignments, one after the other,
\* write into the object X refers to; the same reference is returned
predict(hp, X, thr) ==
    [heap |-> [hp EXCEPT ![X] = SetBelow(SetAtLeast(hp[X], thr), thr)],
     ret |-> X]

----------------------------------------------------------------------------
(* A caller of predict: it holds an array O and calls predict(O, threshold) *)
(* on it, twice.                                                            *)

\* numbers the caller's array may hold
CallerValues == {-2 * One, -One, -1, 0, One, 2 * One}

\* thresholds the caller may pass
Thresholds == {-2 * One, -One, 0, 1, One, 2 * One}

\* shapes of the caller's array
CallerShapes == {<<1, 1>>, <<1, 2>>, <<2, 1>>, <<2, 2>>}

CallerArrays ==
    UNION {Matrices(s[1], s[2], CallerValues) : s \in CallerShapes}

InitPredict ==
    /\ \E M \in CallerArrays :
          /\ heap = [r \in Refs |-> IF r = "O" THEN M ELSE NoArray]
          /\ O0 = M
    /\ threshold \in Thresholds
    /\ self = [h |-> 1, epochs |-> 0, eta |-> One]
    /\ pc = "caller"
    /\ e = -1
    /\ acc = [wrong |-> 0, total |-> 0]
    /\ updates = 0
    /\ measured = << >>
    /\ raised = ""
    /\ ret = ""
    /\ calls = 0
    /\ first = << >>
    /\ result = NotReturned
    /\ before = << >>
    /\ dbn = Off /\ rbf = Off /\ data = Off /\ perc = Off /\ delta = Off

\* labels = clf.predict(O, threshold)
PredictCall ==
    /\ pc = "caller"
    /\ calls < 2
    /\ LET r == predict(heap, "O", threshold)
       IN  /\ heap' = r.heap
           /\ ret' = r.ret
           /\ first' = IF calls = 0 THEN r.heap[r.ret] ELSE first
    /\ calls' = calls + 1
    /\ UNCHANGED <<trainVars, threshold, O0, labVars>>

NextPredict == PredictCall

SpecPredict == InitPredict /\ [][NextPredict]_vars

----------------------------------------------------------------------------
(* TwoLayerPerceptron.train, one action per statement of its loop *)

\* np.mean(p != t) as the pair (number of unequal cells, number of cells)
Mismatch(p, t) ==
    [wrong |-> Cardinality({c \in (1..BRows(p, t)) \X (1..BCols(p, t)) :
                               At(p, c[1], c[2]) # At(t, c[1], c[2])}),
     total |-> BRows(p, t) * BCols(p, t)]

\* compute_accuracy thresholding the observations themselves
compute_accuracy_onX(hp, X, t) ==
    LET r == predict(hp, X, 0)
    IN  [heap |-> r.heap, acc |-> Mismatch(r.heap[r.ret], r.heap[t])]

\* compute_accuracy thresholding the output weights
compute_accuracy_onW(hp, X, t) ==
    LET r == predict(hp, "W", 0)
    IN  [heap |-> r.heap, acc |-> Mismatch(r.heap[r.ret], r.heap[t])]

\* compute_accuracy(X, t): the output of a new forward pass is thresholded
\* in place by predict and compared with t; acc is 1 - wrong / total
compute_accuracy(hp, X, t) ==
    LET o  == forward_pass(hp[X], hp["V"], hp["W"]).o
        r  == predict([hp EXCEPT !["p"] = o], "p", 0)
    IN  [heap |-> r.heap, acc |-> Mismatch(r.heap[r.ret], r.heap[t])]

\* a train that returns its weights, the epochs run and the last accuracy
train_return_values == <<heap["V"], heap["W"], e + 1, acc>>

\* lines 464-466: the method ends without a return statement
train_return == None

\* acc == 1.0
IsOne(a) == a.total > 0 /\ a.wrong = 0

\* rows of the observations: one feature (-1.0 or 0.5) and the constant 1
XRowValues == {<<-One, One>>, <<One \div 2, One>>}

\* target values
TargetValues == {-One, One}

\* the caller's X: 1..MaxRows rows
Observations ==
    UNION {[1..n -> XRowValues] : n \in 1..MaxRows}

\* the caller's t: 1..MaxRows rows (not tied to the rows of X), one column,
\* or two columns as for a two-output encoder
Targets ==
    UNION {Matrices(m, 1, TargetValues) \cup {[i \in 1..m |-> <<One, -One>>]} :
           m \in 1..MaxRows}

\* clf = TwoLayerPerceptron(h, epochs, eta), about to run clf.train(X, t)
Init ==
    /\ \E X \in Observations, t \in Targets :
          heap = [r \in Refs |-> IF r = "X" THEN X
                                 ELSE IF r = "t" THEN t ELSE NoArray]
    /\ \E h \in HiddenWidths, epochs \in 0..MaxEpochs, eta \in LearningRates :
          self = [h |-> h, epochs |-> epochs, eta |-> eta]
    /\ pc = "train"
    /\ e = -1
    /\ acc = [wrong |-> 0, total |-> 0]
    /\ updates = 0
    /\ measured = << >>
    /\ raised = ""
    /\ threshold = 0
    /\ ret = ""
    /\ calls = 0
    /\ O0 = << >>
    /\ first = << >>
    /\ result = NotReturned
    /\ before = << >>
    /\ dbn = Off /\ rbf = Off /\ data = Off /\ perc = Off /\ delta = Off

\* line 440: self.initialize_weights(X, t)
InitializeWeights ==
    /\ pc = "train"
    /\ \E vw \in initialize_weights(heap["X"], heap["t"], self.h) :
          heap' = [heap EXCEPT !["V"] = vw[1], !["W"] = vw[2]]
    /\ pc' = "for"
    /\ UNCHANGED <<self, e, acc, updates, measured, raised, result, before,
                   callerVars, labVars>>

\* the loop running over range(self.epochs + 1)
NextEpoch_one_more ==
    /\ pc = "for"
    /\ e + 1 < self.epochs + 1
    /\ e' = e + 1
    /\ pc' = "forward"
    /\ UNCHANGED <<heap, self, acc, updates, measured, raised, result,
                   before, callerVars, labVars>>

\* line 442: for e in range(self.epochs), the next epoch starts
NextEpoch ==
    /\ pc = "for"
    /\ e + 1 < self.epochs
    /\ e' = e + 1
    /\ pc' = "forward"
    /\ UNCHANGED <<heap, self, acc, updates, measured, raised, result,
                   before, callerVars, labVars>>

\* line 442: range(self.epochs) is exhausted, train returns
Exhausted ==
    /\ pc = "for"
    /\ ~(e + 1 < self.epochs)
    /\ pc' = "done"
    /\ result' = train_return
    /\ UNCHANGED <<heap, self, e, acc, updates, measured, raised, before,
                   callerVars, labVars>>

\* line 444: h, o = self.forward_pass(X)
ForwardPass ==
    /\ pc = "forward"
    /\ LET r == forward_pass(heap["X"], heap["V"], heap["W"])
       IN  heap' = [heap EXCEPT !["h"] = r.h, !["o"] = r.o]
    /\ pc' = "delta_o"
    /\ before' = <<heap["V"], heap["W"]>>
    /\ UNCHANGED <<self, e, acc, updates, measured, raised, result,
                   callerVars, labVars>>

\* line 447: delta_o = np.multiply((o - t), d_act(o)); o - t raises when o
\* and t cannot be broadcast together
DeltaO ==
    /\ pc = "delta_o"
    /\ IF CanBroadcast(heap["o"], heap["t"])
       THEN /\ heap' = [heap EXCEPT !["delta_o"] =
                           Multiply(Sub(heap["o"], heap["t"]),
                                    d_activation_function(heap["o"]))]
            /\ pc' = "delta_h"
            /\ UNCHANGED raised
       ELSE /\ raised' = "ValueError"
            /\ pc' = "raised"
            /\ UNCHANGED heap
    /\ UNCHANGED <<self, e, acc, updates, measured, result, before,
                   callerVars, labVars>>

\* lines 448-449: delta_h = np.multiply(delta_o @ self.W.T, d_act(h));
\* the product raises when delta_o has not as many columns as W.T has rows
DeltaH ==
    /\ pc = "delta_h"
    /\ IF CanMatMul(heap["delta_o"], Transpose(heap["W"]))
       THEN /\ heap' = [heap EXCEPT !["delta_h"] =
                           Multiply(MatMul(heap["delta_o"],
                                           Transpose(heap["W"])),
                                    d_activation_function(heap["h"]))]
            /\ pc' = "update_V"
            /\ UNCHANGED raised
       ELSE /\ raised' = "ValueError"
            /\ pc' = "raised"
            /\ UNCHANGED heap
    /\ UNCHANGED <<self, e, acc, updates, measured, result, before,
                   callerVars, labVars>>

\* A += B in place keeps the shape of A: B must broadcast to it
CanAddInPlace(A, B) == CanBroadcast(A, B) /\ Shape(Add(A, B)) = Shape(A)

\* line 452: self.V += - self.eta * X.T @ delta_h
UpdateV ==
    /\ pc = "update_V"
    /\ LET XT == Scale(-self.eta, Transpose(heap["X"]))
       IN  IF /\ CanMatMul(XT, heap["delta_h"])
              /\ CanAddInPlace(heap["V"], MatMul(XT, heap["delta_h"]))
           THEN /\ heap' = [heap EXCEPT !["V"] =
                               Add(heap["V"], MatMul(XT, heap["delta_h"]))]
                /\ pc' = "update_W"
                /\ UNCHANGED raised
           ELSE /\ raised' = "ValueError"
                /\ pc' = "raised"
                /\ UNCHANGED heap
    /\ UNCHANGED <<self, e, acc, updates, measured, result, before,
                   callerVars, labVars>>

\* the update of W taking h from a second forward pass, made after V changed
UpdateW_fresh_h ==
    /\ pc = "update_W"
    /\ LET h2 == forward_pass(heap["X"], heap["V"], heap["W"]).h
           hT == Scale(-self.eta, Transpose(h2))
       IN  /\ heap' = [heap EXCEPT !["W"] =
                           Add(heap["W"], MatMul(hT, heap["delta_o"]))]
           /\ pc' = "accuracy"
           /\ updates' = updates + 1
    /\ UNCHANGED <<self, e, acc, measured, raised, result, before,
                   callerVars, labVars>>

\* line 453: self.W += - self.eta * h.T @ delta_o
UpdateW ==
    /\ pc = "update_W"
    /\ LET hT == Scale(-self.eta, Transpose(heap["h"]))
       IN  IF /\ CanMatMul(hT, heap["delta_o"])
              /\ CanAddInPlace(heap["W"], MatMul(hT, heap["delta_o"]))
           THEN /\ heap' = [heap EXCEPT !["W"] =
                               Add(heap["W"], MatMul(hT, heap["delta_o"]))]
                /\ pc' = "accuracy"
                /\ updates' = updates + 1
                /\ UNCHANGED raised
           ELSE /\ raised' = "ValueError"
                /\ pc' = "raised"
                /\ UNCHANGED <<heap, updates>>
    /\ UNCHANGED <<self, e, acc, measured, result, before, callerVars,
                   labVars>>

\* line 456: acc = self.compute_accuracy(X, t)
ComputeAccuracy ==
    /\ pc = "accuracy"
    /\ LET r == compute_accuracy(heap, "X", "t")
       IN  /\ heap' = r.heap
           /\ acc' = r.acc
    /\ measured' = <<heap["V"], heap["W"]>>
    /\ pc' = "if"
    /\ UNCHANGED <<self, e, updates, raised, result, before, callerVars,
                   labVars>>

\* the if of line 460 without its break
Break_missing ==
    /\ pc = "if"
    /\ IsOne(acc)
    /\ pc' = "for"
    /\ UNCHANGED <<heap, self, e, acc, updates, measured, raised, result,
                   before, callerVars, labVars>>

\* lines 460-463: if acc == 1.0: break
Break ==
    /\ pc = "if"
    /\ IsOne(acc)
    /\ pc' = "done"
    /\ result' = train_return
    /\ UNCHANGED <<heap, self, e, acc, updates, measured, raised, before,
                   callerVars, labVars>>

\* line 460: acc is not 1.0, back to the loop head
Continue ==
    /\ pc = "if"
    /\ ~IsOne(acc)
    /\ pc' = "for"
    /\ UNCHANGED <<heap, self, e, acc, updates, measured, raised, result,
                   before, callerVars, labVars>>

Next ==
    \/ InitializeWeights
    \/ NextEpoch
    \/ Exhausted
    \/ ForwardPass
    \/ DeltaO
    \/ DeltaH
    \/ UpdateV
    \/ UpdateW
    \/ ComputeAccuracy
    \/ Break
    \/ Continue

Spec == Init /\ [][Next]_vars

\* target values of both encodings, -1 / +1 and 0 / 1
EncodingValues == {-One, 0, One}

\* train called with X (n, d) and t (n, 1) in either encoding, on a
\* perceptron of one hidden node
InitEncodings ==
    /\ \E n \in 1..MaxRows :
          \E X \in [1..n -> XRowValues], t \in Matrices(n, 1, EncodingValues) :
             heap = [r \in Refs |-> IF r = "X" THEN X
                                    ELSE IF r = "t" THEN t ELSE NoArray]
    /\ \E epochs \in 0..MaxEpochs, eta \in LearningRates :
          self = [h |-> 1, epochs |-> epochs, eta |-> eta]
    /\ pc = "train"
    /\ e = -1
    /\ acc = [wrong |-> 0, total |-> 0]
    /\ updates = 0
    /\ measured = << >>
    /\ raised = ""
    /\ threshold = 0
    /\ ret = ""
    /\ calls = 0
    /\ O0 = << >>
    /\ first = << >>
    /\ result = NotReturned
    /\ before = << >>
    /\ dbn = Off /\ rbf = Off /\ data = Off /\ perc = Off /\ delta = Off

SpecEncodings == InitEncodings /\ [][Next]_vars

----------------------------------------------------------------------------
(* Idle values of the perceptron's variables, for the specifications of    *)
(* the other parts of the repository                                       *)

PerceptronOff ==
    /\ heap = [r \in Refs |-> NoArray]
    /\ self = [h |-> 1, epochs |-> 0, eta |-> One]
    /\ pc = "off"
    /\ e = -1
    /\ acc = [wrong |-> 0, total |-> 0]
    /\ updates = 0
    /\ measured = << >>
    /\ raised = ""
    /\ threshold = 0
    /\ ret = ""
    /\ calls = 0
    /\ O0 = << >>
    /\ first = << >>
    /\ result = NotReturned
    /\ before = << >>

perceptronVars == <<heap, trainVars, callerVars>>

----------------------------------------------------------------------------
(* class DeepBeliefNet: train_greedylayerwise                              *)
(*                                                                         *)
(* dbn.files  : the parameter files present in trained_rbm/                *)
(* dbn.loaded : the parameters np.load has assigned in this call           *)
(* dbn.log    : the calls made so far, in order: <<operation, RBM>>        *)
(* dbn.caught : TRUE once the except IOError branch was entered            *)
(* dbn.failed : the RBM whose load raised the IOError ("" if none)         *)
(* dbn.raised : the exception that left the method ("" if none)            *)
(* cd1 and untwine_weights are methods of the RBM class; the model records *)
(* that train_greedylayerwise calls them, and on which RBM.                *)

RBMNames == {"vis--hid", "hid--pen", "pen+lbl--top"}

\* the arrays loadfromfile_rbm loads and savetofile_rbm saves, in order
Params == <<"weight_vh", "bias_v", "bias_h">>

RBMFiles == {<<name, Params[k]>> : name \in RBMNames, k \in DOMAIN Params}

\* the parameters of `name` that loadfromfile_rbm assigns before the first
\* np.load of a missing file raises (all of them if no file is missing)
loadfromfile_rbm(files, name) ==
    LET missing == {k \in DOMAIN Params : <<name, Params[k]>> \notin files}
        stop == IF missing = {} THEN Len(Params) + 1
                ELSE CHOOSE k \in missing : \A j \in missing : k <= j
    IN  [ok |-> missing = {},
         loaded |-> {<<name, Params[k]>> : k \in 1..(stop - 1)}]

savetofile_rbm(files, name) ==
    files \cup {<<name, Params[k]>> : k \in DOMAIN Params}

InitDBN ==
    /\ PerceptronOff
    /\ \E files \in SUBSET RBMFiles :
          dbn = [pc |-> "load_vis_hid", files |-> files, loaded |-> {},
                 log |-> << >>, caught |-> FALSE, failed |-> "",
                 raised |-> ""]
    /\ rbf = Off /\ data = Off /\ perc = Off /\ delta = Off

otherVarsDBN == <<perceptronVars, rbf, data, perc, delta>>

\* self.loadfromfile_rbm(loc="trained_rbm", name=name) in the try block:
\* IOError enters the except branch
TryLoad(d, name, next) ==
    LET r == loadfromfile_rbm(d.files, name)
    IN  [d EXCEPT !.loaded = @ \cup r.loaded,
                  !.log = IF r.ok THEN Append(@, <<"load", name>>) ELSE @,
                  !.caught = ~r.ok,
                  !.failed = IF r.ok THEN @ ELSE name,
                  !.pc = IF r.ok THEN next ELSE "cd1_vis_hid"]

\* a statement that calls method `op` of self.rbm_stack[name]
CallRBM(d, op, name, next) ==
    [d EXCEPT !.log = Append(@, <<op, name>>), !.pc = next]

\* self.savetofile_rbm(loc="trained_rbm", name=name)
SaveRBM(d, name, next) ==
    [d EXCEPT !.files = savetofile_rbm(@, name),
              !.log = Append(@, <<"save", name>>),
              !.pc = next]

\* self.loadfromfile_rbm(loc="trained_rbm", name="vis--hid")
LoadVisHid ==
    /\ dbn.pc = "load_vis_hid"
    /\ dbn' = TryLoad(dbn, "vis--hid", "try_untwine_vis_hid")
    /\ UNCHANGED otherVarsDBN

\* self.rbm_stack["vis--hid"].untwine_weights()    (try block)
TryUntwineVisHid ==
    /\ dbn.pc = "try_untwine_vis_hid"
    /\ dbn' = CallRBM(dbn, "untwine", "vis--hid", "load_hid_pen")
    /\ UNCHANGED otherVarsDBN

\* self.loadfromfile_rbm(loc="trained_rbm", name="hid--pen")
LoadHidPen ==
    /\ dbn.pc = "load_hid_pen"
    /\ dbn' = TryLoad(dbn, "hid--pen", "try_untwine_hid_pen")
    /\ UNCHANGED otherVarsDBN

\* self.rbm_stack["hid--pen"].untwine_weights()    (try block)
TryUntwineHidPen ==
    /\ dbn.pc = "try_untwine_hid_pen"
    /\ dbn' = CallRBM(dbn, "untwine", "hid--pen", "load_top")
    /\ UNCHANGED otherVarsDBN

\* self.loadfromfile_rbm(loc="trained_rbm", name="pen+lbl--top"); return
LoadTop ==
    /\ dbn.pc = "load_top"
    /\ dbn' = TryLoad(dbn, "pen+lbl--top", "done")
    /\ UNCHANGED otherVarsDBN

\* self.rbm_stack["vis--hid"].cd1(vis_trainset, n_iterations=n_iterations)
TrainVisHid ==
    /\ dbn.pc = "cd1_vis_hid"
    /\ dbn' = CallRBM(dbn, "cd1", "vis--hid", "save_vis_hid")
    /\ UNCHANGED otherVarsDBN

\* self.savetofile_rbm(loc="trained_rbm", name="vis--hid")
SaveVisHid ==
    /\ dbn.pc = "save_vis_hid"
    /\ dbn' = SaveRBM(dbn, "vis--hid", "copy_hid_pen")
    /\ UNCHANGED otherVarsDBN

\* self.rbm_stack["hid--pen"].weight_vh = self.rbm_stack["vis--hid"].weight_vh
\* and the same for weight_v_to_h and weight_h_to_v
CopyToHidPen ==
    /\ dbn.pc = "copy_hid_pen"
    /\ dbn' = CallRBM(dbn, "copy", "hid--pen", "untwine_vis_hid")
    /\ UNCHANGED otherVarsDBN

\* self.rbm_stack["vis--hid"].untwine_weights()    (except branch)
UntwineVisHid ==
    /\ dbn.pc = "untwine_vis_hid"
    /\ dbn' = CallRBM(dbn, "untwine", "vis--hid", "cd1_second")
    /\ UNCHANGED otherVarsDBN

\* self.rbm_stack["vis--hid"].cd1(vis_trainset, n_iterations=n_iterations)
\* under the comment "CD-1 training for hid--pen"
TrainSecond ==
    /\ dbn.pc = "cd1_second"
    /\ dbn' = CallRBM(dbn, "cd1", "vis--hid", "save_hid_pen")
    /\ UNCHANGED otherVarsDBN

\* self.savetofile_rbm(loc="trained_rbm", name="hid--pen")
SaveHidPen ==
    /\ dbn.pc = "save_hid_pen"
    /\ dbn' = SaveRBM(dbn, "hid--pen", "copy_top")
    /\ UNCHANGED otherVarsDBN

\* self.rbm_stack["pen+lbl--top"].weight_vh = self.rbm_stack["hid--pen"].weight_vh
\* and the same for weight_v_to_h and weight_h_to_v
CopyToTop ==
    /\ dbn.pc = "copy_top"
    /\ dbn' = CallRBM(dbn, "copy", "pen+lbl--top", "untwine_hid_pen")
    /\ UNCHANGED otherVarsDBN

\* self.rbm_stack["hid--pen"].untwine_weights()    (except branch)
UntwineHidPen ==
    /\ dbn.pc = "untwine_hid_pen"
    /\ dbn' = CallRBM(dbn, "untwine", "hid--pen", "hstack")
    /\ UNCHANGED otherVarsDBN

\* np.hstack(vis_trainset, lbl_trainset): hstack takes one positional
\* argument, so the call raises TypeError before cd1 is entered; the save
\* of pen+lbl--top after it is never reached
StackTopInput ==
    /\ dbn.pc = "hstack"
    /\ dbn' = [dbn EXCEPT !.raised = "TypeError", !.pc = "done"]
    /\ UNCHANGED otherVarsDBN

NextDBN ==
    \/ LoadVisHid
    \/ TryUntwineVisHid
    \/ LoadHidPen
    \/ TryUntwineHidPen
    \/ LoadTop
    \/ TrainVisHid
    \/ SaveVisHid
    \/ CopyToHidPen
    \/ UntwineVisHid
    \/ TrainSecond
    \/ SaveHidPen
    \/ CopyToTop
    \/ UntwineHidPen
    \/ StackTopInput

SpecDBN == InitDBN /\ [][NextDBN]_vars

----------------------------------------------------------------------------
(* class RBFNN: initialize_hidden_nodes and competitive_learning           *)
(*                                                                         *)
(* rbf.H      : self.H, one row <<mean, variance>> per hidden unit         *)
(* rbf.prev   : history: self.H as the iteration's update found it         *)
(* rbf.X      : the 1-D input data                                         *)
(* rbf.i      : loop variable of competitive_learning                      *)
(* rbf.x, rbf.winner : the sample drawn and the winning unit (1-based)     *)
(* rbf.raised : the exception that ended the call ("" if none)             *)

MaxIterations == 2    \* largest cl_iterations given to the constructor

\* values np.random.uniform(x_range[0], x_range[1]) gives the means
MeanDraws == {-One, 0, One}

\* the variance argument of initialize_hidden_nodes
Variances == {One \div 2, One}

\* the values of the input data
InputValues == {-One, One \div 2, One}

\* the constructor's eta
CLRates == {One \div 2, One}

Abs(x) == IF x >= 0 THEN x ELSE -x

\* self.H after initialize_hidden_nodes: column 1 is the variance, column
\* 0 of each row a drawn mean
initialize_hidden_nodes(means, variance) ==
    [u \in DOMAIN means |-> <<means[u], variance>>]

\* np.argmin(abs(abs(x) - abs(self.H[:, 0]))): the first unit at the
\* smallest distance
Winner(H, x) ==
    LET dist(u) == Abs(Abs(x) - Abs(H[u][1]))
    IN  CHOOSE u \in DOMAIN H :
           /\ \A v \in DOMAIN H : dist(u) <= dist(v)
           /\ \A v \in DOMAIN H : dist(v) = dist(u) => u <= v

\* self.H[winner] += c: the scalar c is added to the whole row
AddToRow(H, winner, c) ==
    [H EXCEPT ![winner] = [j \in DOMAIN @ |-> @[j] + c]]

InitRBF ==
    /\ PerceptronOff
    /\ \E n \in 1..2, len \in 1..2 :
          \E means \in [1..n -> MeanDraws], variance \in Variances,
             X \in [1..len -> InputValues], eta \in CLRates,
             cl_strat \in 1..3, cl_iterations \in 0..MaxIterations :
             rbf = [pc |-> "loop",
                    H |-> initialize_hidden_nodes(means, variance),
                    prev |-> initialize_hidden_nodes(means, variance),
                    X |-> X, eta |-> eta, cl_strat |-> cl_strat,
                    cl_iterations |-> cl_iterations,
                    i |-> -1, x |-> 0, winner |-> 0, raised |-> ""]
    /\ dbn = Off /\ data = Off /\ perc = Off /\ delta = Off

otherVarsRBF == <<perceptronVars, dbn, data, perc, delta>>

\* for i in range(self.cl_iterations): x = np.random.choice(X)
\*     winner = np.argmin(abs(abs(x) - abs(self.H[:, 0])))
DrawSample ==
    /\ rbf.pc = "loop"
    /\ rbf.i + 1 < rbf.cl_iterations
    /\ \E k \in DOMAIN rbf.X :
          rbf' = [rbf EXCEPT !.i = @ + 1, !.x = rbf.X[k],
                             !.winner = Winner(rbf.H, rbf.X[k]),
                             !.pc = "update"]
    /\ UNCHANGED otherVarsRBF

\* the loop is exhausted: competitive_learning returns
ReturnCL ==
    /\ rbf.pc = "loop"
    /\ rbf.i + 1 >= rbf.cl_iterations
    /\ rbf' = [rbf EXCEPT !.pc = "done"]
    /\ UNCHANGED otherVarsRBF

\* if self.cl_strat == 1: self.H[winner] += self.eta * x
UpdateStrat1 ==
    /\ rbf.pc = "update"
    /\ rbf.cl_strat = 1
    /\ rbf' = [rbf EXCEPT
                 !.prev = rbf.H,
                 !.H = AddToRow(@, rbf.winner, Trunc(rbf.eta * rbf.x, Q)),
                 !.pc = "loop"]
    /\ UNCHANGED otherVarsRBF

\* elif self.cl_strat == 2:
\*     self.H[winner] += self.eta * (abs(x) - abs(self.H[winner][0]))
UpdateStrat2 ==
    /\ rbf.pc = "update"
    /\ rbf.cl_strat = 2
    /\ rbf' = [rbf EXCEPT
                 !.prev = rbf.H,
                 !.H = AddToRow(@, rbf.winner,
                          Trunc(rbf.eta * (Abs(rbf.x)
                                           - Abs(rbf.H[rbf.winner][1])), Q)),
                 !.pc = "loop"]
    /\ UNCHANGED otherVarsRBF

\* else: raise ValueError('cl_strat has to be one of 1, 2')
RaiseStrat ==
    /\ rbf.pc = "update"
    /\ rbf.cl_strat \notin {1, 2}
    /\ rbf' = [rbf EXCEPT !.raised = "ValueError", !.pc = "done"]
    /\ UNCHANGED otherVarsRBF

NextRBF ==
    \/ DrawSample
    \/ ReturnCL
    \/ UpdateStrat1
    \/ UpdateStrat2
    \/ RaiseStrat

SpecRBF == InitRBF /\ [][NextRBF]_vars

----------------------------------------------------------------------------
(* create_training_examples_and_targets                                    *)
(*                                                                         *)
(* data.classA, data.classB : the local variables (rebound by np.hstack)   *)
(* data.n      : classA.shape[0]                                           *)
(* data.X, data.t : the training data and the targets                      *)
(* data.origin : history: the class each row of X came from                *)
(* data.rowsA, data.rowsB : history: the row counts of the arguments       *)
(* data.raised : the exception that ended the call ("" if none)            *)

MaxPoints == 2        \* largest number of points of one class

\* points of classA and of classB (the classes overlap)
PointsA == {<<-One, -One>>, <<One, 0>>}
PointsB == {<<One, One>>, <<One, 0>>}

\* np.ones((n, c)) * v
Full(n, c, v) == [i \in 1..n |-> [j \in 1..c |-> v]]

\* np.hstack((A, B)) raises ValueError unless the row counts agree
CanHStack(A, B) == Rows(A) = Rows(B)

HStack(A, B) == [i \in 1..Rows(A) |-> A[i] \o B[i]]

\* np.vstack((A, B))
VStack(A, B) == A \o B

\* the orders shuffle can put n rows in
RowOrders(n) ==
    {p \in [1..n -> 1..n] : \A i, j \in 1..n : p[i] = p[j] => i = j}

\* the rows of M in the order p
Permute(M, p) == [i \in DOMAIN M |-> M[p[i]]]

InitData ==
    /\ PerceptronOff
    /\ \E nA \in 1..MaxPoints, nB \in 1..MaxPoints :
          \E A \in [1..nA -> PointsA], B \in [1..nB -> PointsB] :
             data = [pc |-> "n", classA |-> A, classB |-> B, n |-> 0,
                     X |-> << >>, t |-> << >>, origin |-> << >>,
                     rowsA |-> nA, rowsB |-> nB, raised |-> ""]
    /\ dbn = Off /\ rbf = Off /\ perc = Off /\ delta = Off

otherVarsData == <<perceptronVars, dbn, rbf, perc, delta>>

\* n = classA.shape[0]
CountRows ==
    /\ data.pc = "n"
    /\ data' = [data EXCEPT !.n = Rows(data.classA), !.pc = "hstack_A"]
    /\ UNCHANGED otherVarsData

\* classA = np.hstack((classA, np.ones((n, 1))))
BiasA ==
    /\ data.pc = "hstack_A"
    /\ data' = [data EXCEPT
                  !.classA = HStack(@, Full(data.n, 1, One)),
                  !.pc = "hstack_B"]
    /\ UNCHANGED otherVarsData

\* classB = np.hstack((classB, np.ones((n, 1))))
BiasB ==
    /\ data.pc = "hstack_B"
    /\ CanHStack(data.classB, Full(data.n, 1, One))
    /\ data' = [data EXCEPT
                  !.classB = HStack(@, Full(data.n, 1, One)),
                  !.pc = "vstack_X"]
    /\ UNCHANGED otherVarsData

\* the same statement when classB has another number of rows than classA
BiasBRaises ==
    /\ data.pc = "hstack_B"
    /\ ~CanHStack(data.classB, Full(data.n, 1, One))
    /\ data' = [data EXCEPT !.raised = "ValueError", !.pc = "done"]
    /\ UNCHANGED otherVarsData

\* X = np.vstack((classA, classB))
StackX ==
    /\ data.pc = "vstack_X"
    /\ data' = [data EXCEPT
                  !.X = VStack(data.classA, data.classB),
                  !.origin = [i \in 1..Rows(data.classA) |-> "A"]
                             \o [i \in 1..Rows(data.classB) |-> "B"],
                  !.pc = "vstack_t"]
    /\ UNCHANGED otherVarsData

\* t = np.vstack((np.ones((n, 1))*-1, np.ones((n, 1))))
StackT ==
    /\ data.pc = "vstack_t"
    /\ data' = [data EXCEPT
                  !.t = VStack(Full(data.n, 1, -One), Full(data.n, 1, One)),
                  !.pc = "shuffle"]
    /\ UNCHANGED otherVarsData

\* X, t = shuffle(X, t, random_state=0); return X, t
\* one permutation of the rows, applied to X and to t alike
Shuffle ==
    /\ data.pc = "shuffle"
    /\ Rows(data.X) = Rows(data.t)
    /\ \E p \in RowOrders(Rows(data.X)) :
          data' = [data EXCEPT !.X = Permute(@, p), !.t = Permute(@, p),
                               !.origin = Permute(@, p), !.pc = "done"]
    /\ UNCHANGED otherVarsData

NextData ==
    \/ CountRows
    \/ BiasA
    \/ BiasB
    \/ BiasBRaises
    \/ StackX
    \/ StackT
    \/ Shuffle

SpecData == InitData /\ [][NextData]_vars

----------------------------------------------------------------------------
(* class Perceptron: predict and train                                     *)
(*                                                                         *)
(* perc.W      : self.W, (3, 1)                                            *)
(* perc.X, perc.T : the training data (n, 3) and the targets (n, 1)        *)
(* perc.e, perc.k : the epoch and the number of samples of it already seen *)
(* perc.has_misclassification : the local flag of train                    *)
(* perc.broke  : history: train left the epoch loop by break               *)
(* perc.missed : history: samples of this epoch with t_pred != t           *)
(* perc.clean  : history: the completed epochs in which no sample was      *)
(*               misclassified                                             *)

\* values np.random.rand gives the entries of self.W
RandDraws == {0, One \div 2}

\* rows of the training data, the bias input 1 last
SampleRows == {<<-One, 0, One>>, <<One, 0, One>>, <<0, One \div 2, One>>}

PerceptronRates == {One \div 2, One}

\* the row x as the (1, 3) matrix of x @ self.W
RowMatrix(x) == <<x>>

\* x.reshape(3, 1)
ColumnMatrix(x) == [j \in 1..Len(x) |-> <<x[j]>>]

\* Perceptron.predict: 1 if (x @ self.W >= 0) else -1.
perceptron_predict(x, W) ==
    IF MatMul(RowMatrix(x), W)[1][1] >= 0 THEN One ELSE -One

\* self.W + self.eta * (t[0] - t_pred) / 2 * (x).reshape(3, 1)
perceptron_update(W, eta, t, t_pred, x) ==
    Add(W, Scale(Trunc(Trunc(eta * (t[1] - t_pred), Q), 2), ColumnMatrix(x)))

\* the flag after a sample if the comparison of line 306 never set it
misclassification_unseen(has, t_pred, t) == has

\* if t_pred != t: has_misclassification = True
misclassification(has, t_pred, t) == has \/ <<t_pred>> # t

InitPerceptron ==
    /\ PerceptronOff
    /\ \E n \in 1..MaxPoints :
          \E W \in Matrices(3, 1, RandDraws), X \in [1..n -> SampleRows],
             T \in Matrices(n, 1, TargetValues), eta \in PerceptronRates,
             epochs \in 0..MaxEpochs :
             perc = [pc |-> "for_e", W |-> W, X |-> X, T |-> T, eta |-> eta,
                     epochs |-> epochs, e |-> -1, k |-> 0,
                     has_misclassification |-> FALSE, broke |-> FALSE,
                     missed |-> 0, clean |-> {}]
    /\ dbn = Off /\ rbf = Off /\ data = Off /\ delta = Off

otherVarsPerceptron == <<perceptronVars, dbn, rbf, data, delta>>

\* for e in range(self.epochs): has_misclassification = False
PerceptronEpoch ==
    /\ perc.pc = "for_e"
    /\ perc.e + 1 < perc.epochs
    /\ perc' = [perc EXCEPT !.e = @ + 1, !.k = 0, !.missed = 0,
                            !.has_misclassification = FALSE,
                            !.pc = "for_x"]
    /\ UNCHANGED otherVarsPerceptron

\* range(self.epochs) is exhausted
PerceptronExhausted ==
    /\ perc.pc = "for_e"
    /\ perc.e + 1 >= perc.epochs
    /\ perc' = [perc EXCEPT !.pc = "done"]
    /\ UNCHANGED otherVarsPerceptron

\* for x, t in zip(X, T): the body of the inner loop
PerceptronSample ==
    /\ perc.pc = "for_x"
    /\ perc.k < Rows(perc.X)
    /\ LET x == perc.X[perc.k + 1]
           t == perc.T[perc.k + 1]
           t_pred == perceptron_predict(x, perc.W)
       IN  perc' = [perc EXCEPT
                      !.has_misclassification =
                          misclassification(@, t_pred, t),
                      !.missed = IF <<t_pred>> # t THEN @ + 1 ELSE @,
                      !.W = perceptron_update(@, perc.eta, t, t_pred, x),
                      !.k = @ + 1]
    /\ UNCHANGED otherVarsPerceptron

\* if not has_misclassification: break
PerceptronBreak ==
    /\ perc.pc = "for_x"
    /\ perc.k >= Rows(perc.X)
    /\ ~perc.has_misclassification
    /\ perc' = [perc EXCEPT
                  !.clean = IF perc.missed = 0 THEN @ \cup {perc.e} ELSE @,
                  !.broke = TRUE, !.pc = "done"]
    /\ UNCHANGED otherVarsPerceptron

\* the epoch had a misclassification: next epoch
PerceptronContinue ==
    /\ perc.pc = "for_x"
    /\ perc.k >= Rows(perc.X)
    /\ perc.has_misclassification
    /\ perc' = [perc EXCEPT
                  !.clean = IF perc.missed = 0 THEN @ \cup {perc.e} ELSE @,
                  !.pc = "for_e"]
    /\ UNCHANGED otherVarsPerceptron

NextPerceptron ==
    \/ PerceptronEpoch
    \/ PerceptronExhausted
    \/ PerceptronSample
    \/ PerceptronBreak
    \/ PerceptronContinue

SpecPerceptron == InitPerceptron /\ [][NextPerceptron]_vars

----------------------------------------------------------------------------
(* class DeltaClassifier: train                                            *)
(*                                                                         *)
(* delta.W     : self.W, (3, 1), or (2, 1) once the bias weight is dropped *)
(* delta.X, delta.T : the training data and the targets (n, 1)             *)
(* delta.batch, delta.bias : the flags of train                            *)
(* delta.e, delta.k : the epoch and the number of samples of it already    *)
(*               seen                                                      *)
(* delta.dW    : the local dW, (d, 1) in batch mode, a row of d entries in *)
(*               sequential mode                                           *)
(* delta.converged : history: train left the loops by break                *)
(* delta.raised : the exception that ended the call ("" if none)           *)

BatchTolerance == 10000         \* 1 / 10**-4
SeqTolerance == 10000000        \* 1 / 10**-7

\* rows of the training data, the bias input 1 last
DeltaRows == {<<-(One \div 2), -(One \div 2), One>>, <<One, 0, One>>}

\* abs(s) < 1 / tolerance, s in multiples of 1 / Q
Below(s, tolerance) == Abs(s) * tolerance < Q

\* M[:-1]: all rows but the last
DropLastRow(M) == SubSeq(M, 1, Len(M) - 1)

\* M[:, :-1]: all columns but the last
DropLastColumn(M) == [i \in 1..Rows(M) |-> SubSeq(M[i], 1, Len(M[i]) - 1)]

\* dW.sum() of a (d, 1) array
ColumnSum(M) == SumTo([i \in 1..Rows(M) |-> M[i][1]], Rows(M))

\* dW.sum() of a 1-D array
RowSum(x) == SumTo(x, Len(x))

\* - self.eta * X.T @ (X@self.W - T)
batch_dW(eta, X, W, T) ==
    MatMul(Scale(-eta, Transpose(X)), Sub(MatMul(X, W), T))

\* - self.eta * x.T * (x@self.W - t), x and t one row of X and of T
sequential_dW(eta, x, W, t) ==
    LET err == MatMul(RowMatrix(x), W)[1][1] - t[1]
    IN  [j \in 1..Len(x) |-> Trunc(Trunc(-eta * x[j], Q) * err, Q)]

\* dW.reshape(3, 1) raises ValueError unless dW has three entries
CanReshape31(dW) == Len(dW) = 3

InitDelta ==
    /\ PerceptronOff
    /\ \E n \in 1..MaxPoints :
          \E W \in Matrices(3, 1, RandDraws), X \in [1..n -> DeltaRows],
             T \in Matrices(n, 1, TargetValues), epochs \in 0..MaxEpochs,
             batch \in BOOLEAN, bias \in BOOLEAN :
             delta = [pc |-> "start", W |-> W, X |-> X, T |-> T,
                      eta |-> One, epochs |-> epochs, batch |-> batch,
                      bias |-> bias, e |-> -1, k |-> 0, dW |-> << >>,
                      converged |-> FALSE, raised |-> ""]
    /\ dbn = Off /\ rbf = Off /\ data = Off /\ perc = Off

otherVarsDelta == <<perceptronVars, dbn, rbf, data, perc>>

\* if not bias: self.W = self.W[:-1]; X = X[:, :-1]
DeltaDropBias ==
    /\ delta.pc = "start"
    /\ ~delta.bias
    /\ delta' = [delta EXCEPT !.W = DropLastRow(@),
                              !.X = DropLastColumn(@),
                              !.pc = "for_e"]
    /\ UNCHANGED otherVarsDelta

\* if not bias (false)
DeltaKeepBias ==
    /\ delta.pc = "start"
    /\ delta.bias
    /\ delta' = [delta EXCEPT !.pc = "for_e"]
    /\ UNCHANGED otherVarsDelta

\* for e in range(self.epochs): if batch / else
DeltaEpoch ==
    /\ delta.pc = "for_e"
    /\ delta.e + 1 < delta.epochs
    /\ delta' = [delta EXCEPT !.e = @ + 1, !.k = 0,
                              !.pc = IF delta.batch THEN "batch" ELSE "for_x"]
    /\ UNCHANGED otherVarsDelta

\* range(self.epochs) is exhausted
DeltaExhausted ==
    /\ delta.pc = "for_e"
    /\ delta.e + 1 >= delta.epochs
    /\ delta' = [delta EXCEPT !.pc = "done"]
    /\ UNCHANGED otherVarsDelta

\* dW = - self.eta * X.T @ (X@self.W - T); self.W += dW
DeltaBatchUpdate ==
    /\ delta.pc = "batch"
    /\ LET dW == batch_dW(delta.eta, delta.X, delta.W, delta.T)
       IN  delta' = [delta EXCEPT !.dW = dW, !.W = Add(@, dW),
                                  !.pc = "batch_test"]
    /\ UNCHANGED otherVarsDelta

\* if abs(dW.sum()) < 10**-4: break
DeltaBatchBreak ==
    /\ delta.pc = "batch_test"
    /\ Below(ColumnSum(delta.dW), BatchTolerance)
    /\ delta' = [delta EXCEPT !.converged = TRUE, !.pc = "done"]
    /\ UNCHANGED otherVarsDelta

\* if abs(dW.sum()) < 10**-4 (false)
DeltaBatchContinue ==
    /\ delta.pc = "batch_test"
    /\ ~Below(ColumnSum(delta.dW), BatchTolerance)
    /\ delta' = [delta EXCEPT !.pc = "for_e"]
    /\ UNCHANGED otherVarsDelta

\* for i, (x, t) in enumerate(zip(X, T)):
\*     dW = - self.eta * x.T * (x@self.W - t); self.W += dW.reshape(3,1)
DeltaSample ==
    /\ delta.pc = "for_x"
    /\ delta.k < Rows(delta.X)
    /\ LET dW == sequential_dW(delta.eta, delta.X[delta.k + 1], delta.W,
                               delta.T[delta.k + 1])
       IN  /\ CanReshape31(dW)
           /\ delta' = [delta EXCEPT !.dW = dW,
                                     !.W = Add(@, ColumnMatrix(dW)),
                                     !.k = @ + 1, !.pc = "seq_test"]
    /\ UNCHANGED otherVarsDelta

\* the same statements when dW has two entries: reshape raises ValueError
DeltaSampleRaises ==
    /\ delta.pc = "for_x"
    /\ delta.k < Rows(delta.X)
    /\ LET dW == sequential_dW(delta.eta, delta.X[delta.k + 1], delta.W,
                               delta.T[delta.k + 1])
       IN  /\ ~CanReshape31(dW)
           /\ delta' = [delta EXCEPT !.dW = dW, !.raised = "ValueError",
                                     !.pc = "done"]
    /\ UNCHANGED otherVarsDelta

\* if abs(dW.sum()) < 10**-7: break, and the break of the outer loop
DeltaSeqBreak ==
    /\ delta.pc = "seq_test"
    /\ Below(RowSum(delta.dW), SeqTolerance)
    /\ delta' = [delta EXCEPT !.converged = TRUE, !.pc = "done"]
    /\ UNCHANGED otherVarsDelta

\* if abs(dW.sum()) < 10**-7 (false)
DeltaSeqContinue ==
    /\ delta.pc = "seq_test"
    /\ ~Below(RowSum(delta.dW), SeqTolerance)
    /\ delta' = [delta EXCEPT !.pc = "for_x"]
    /\ UNCHANGED otherVarsDelta

\* zip(X, T) is exhausted: else: continue
DeltaSeqEpochEnd ==
    /\ delta.pc = "for_x"
    /\ delta.k >= Rows(delta.X)
    /\ delta' = [delta EXCEPT !.pc = "for_e"]
    /\ UNCHANGED otherVarsDelta

NextDelta ==
    \/ DeltaDropBias
    \/ DeltaKeepBias
    \/ DeltaEpoch
    \/ DeltaExhausted
    \/ DeltaBatchUpdate
    \/ DeltaBatchBreak
    \/ DeltaBatchContinue
    \/ DeltaSample
    \/ DeltaSampleRaises
    \/ DeltaSeqBreak
    \/ DeltaSeqContinue
    \/ DeltaSeqEpochEnd

SpecDelta == InitDelta /\ [][NextDelta]_vars

----------------------------------------------------------------------------
(* Properties of predict, checked under SpecPredict *)

Cells(M) == {<<i, j>> : i \in 1..Rows(M), j \in 1..Cols(M)}

Labels == {One, -One}

\* C3: for every matrix and every threshold, the result of predict has the
\* shape of its input and each element is +1 if the original element was
\* >= threshold and -1 otherwise.
C3_PredictEveryThreshold ==
    calls >= 1 =>
        /\ Shape(first) = Shape(O0)
        /\ \A c \in Cells(O0) :
              first[c[1]][c[2]] =
                  IF O0[c[1]][c[2]] >= threshold THEN One ELSE -One

\* C4: with threshold 0, predict maps an element that is exactly 0 to +1 and
\* every element below 0 to -1.
C4_ZeroIsPositive ==
    (calls >= 1 /\ threshold = 0) =>
        \A c \in Cells(O0) :
            /\ O0[c[1]][c[2]] = 0 => first[c[1]][c[2]] = One
            /\ O0[c[1]][c[2]] < 0 => first[c[1]][c[2]] = -One

C4_Witness ==
    /\ calls >= 1
    /\ threshold = 0
    /\ \E c \in Cells(O0) : O0[c[1]][c[2]] = 0 /\ first[c[1]][c[2]] = One
    /\ \E c \in Cells(O0) : O0[c[1]][c[2]] < 0 /\ first[c[1]][c[2]] = -One

C6_PredictInPlace ==
    calls >= 1 =>
        /\ ret = "O"
        /\ \A c \in Cells(heap["O"]) : heap["O"][c[1]][c[2]] \in Labels
        /\ heap["p"] = NoArray

C6_Witness ==
    /\ calls = 1
    /\ ret = "O"
    /\ \E c \in Cells(O0) : O0[c[1]][c[2]] \notin Labels
    /\ heap["O"] # O0

----------------------------------------------------------------------------
(* Properties of train, checked under Spec *)

\* X of shape (n, d) and t of shape (n, 1), as train documents them
DocumentedShapes ==
    Rows(heap["X"]) = Rows(heap["t"]) /\ Cols(heap["t"]) = 1

\* the current weights classify every training example as t says
ClassifiesAll ==
    LET o == forward_pass(heap["X"], heap["V"], heap["W"]).o
    IN  Mismatch(SetBelow(SetAtLeast(o, 0), 0), heap["t"]).wrong = 0

\* C1: once an accuracy of 1.0 has been measured the loop is left at once
\* and no weight update follows: train is at the test of acc or has
\* returned, as many updates were made as epochs were begun, and V and W
\* are the very weights that were measured, which classify every training
\* example correctly.
C1_StopsAtFullAccuracy ==
    IsOne(acc) =>
        /\ pc \in {"if", "done"}
        /\ updates = e + 1
        /\ measured = <<heap["V"], heap["W"]>>
        /\ ClassifiesAll

C1_Witness ==
    /\ pc = "done"
    /\ IsOne(acc)
    /\ e + 1 < self.epochs
    /\ updates = e + 1
    /\ measured = <<heap["V"], heap["W"]>>

C7_InputsUntouched ==
    [][heap'["X"] = heap["X"] /\ heap'["t"] = heap["t"]]_vars

C7_Witness ==
    /\ pc = "done"
    /\ updates >= 2
    /\ heap["p"] # NoArray
    /\ \E c \in Cells(heap["X"]) : heap["X"][c[1]][c[2]] \notin Labels

\* C8: after initialize_weights, V is changed only by the statement that
\* updates V and W only by the statement that updates W: the forward pass,
\* the backward pass, predict and compute_accuracy leave both unchanged.
C8_OnlyUpdateChangesWeights ==
    [][pc # "train" =>
          /\ heap'["V"] # heap["V"] => pc = "update_V"
          /\ heap'["W"] # heap["W"] => pc = "update_W"]_vars

C8_Witness ==
    /\ pc = "done"
    /\ updates >= 2
    /\ acc.total > 0
    /\ measured = <<heap["V"], heap["W"]>>
    /\ \E c \in Cells(heap["W"]) : heap["W"][c[1]][c[2]] \notin WeightDraws

\* C9: when X and t differ in their number of rows, train fails before V or
\* W is assigned and never goes on by broadcasting t against the output.
C9_RowMismatchFailsFast ==
    Rows(heap["X"]) # Rows(heap["t"]) =>
        /\ heap["V"] = NoArray /\ heap["W"] = NoArray
        /\ pc \in {"train", "raised"}

\* C10: for X of shape (n, d) and t of shape (n, k), k >= 1, V has shape
\* (d, h) and W has shape (h, k) from their initialization on, and
\* forward_pass returns h of shape (n, h) and o of shape (n, k).
C10_Shapes ==
    Rows(heap["X"]) = Rows(heap["t"]) =>
        /\ heap["V"] # NoArray =>
              /\ Shape(heap["V"]) = <<Cols(heap["X"]), self.h>>
              /\ Shape(heap["W"]) = <<self.h, Cols(heap["t"])>>
        /\ heap["o"] # NoArray =>
              /\ Shape(heap["h"]) = <<Rows(heap["X"]), self.h>>
              /\ Shape(heap["o"]) = <<Rows(heap["X"]), Cols(heap["t"])>>

\* C11 as stated: train returns the final V and W, the number of epochs run
\* and the final accuracy, when it converged and when the budget ran out.
C11_TrainReturnsValues ==
    pc = "done" => result = <<heap["V"], heap["W"], e + 1, acc>>

\* C11 as amended: train returns None, when it converged and when the
\* budget ran out; the final weights are left in self.V and self.W.
C11_TrainReturnsNone ==
    /\ pc = "done" =>
          /\ result = None
          /\ heap["V"] # NoArray /\ heap["W"] # NoArray
          /\ acc.total > 0 => measured = <<heap["V"], heap["W"]>>
    /\ pc # "done" => result = NotReturned

C11_Witness ==
    /\ pc = "done"
    /\ result = None
    /\ IsOne(acc)
    /\ updates >= 1

\* C12: an epoch makes one update of V and one of W, both computed from the
\* one forward pass made before either changed: h and o come from the
\* weights the epoch began with, V and W stay as they were until the
\* updates, delta_h is computed with the W of before the update of W, and
\* the new V and W are the old ones plus the step computed from that pass.
C12_OneBatchUpdatePerEpoch ==
    LET f  == forward_pass(heap["X"], before[1], before[2])
        dO == Multiply(Sub(f.o, heap["t"]), d_activation_function(f.o))
        dH == Multiply(MatMul(dO, Transpose(before[2])),
                       d_activation_function(f.h))
        newV == Add(before[1],
                    MatMul(Scale(-self.eta, Transpose(heap["X"])), dH))
        newW == Add(before[2],
                    MatMul(Scale(-self.eta, Transpose(f.h)), dO))
    IN  /\ pc \in {"update_V", "update_W", "accuracy"} =>
              /\ heap["h"] = f.h /\ heap["o"] = f.o
              /\ heap["delta_o"] = dO
              /\ heap["delta_h"] = dH
        /\ pc = "update_V" =>
              /\ <<heap["V"], heap["W"]>> = before
              /\ updates = e
        /\ pc = "update_W" =>
              /\ heap["V"] = newV /\ heap["W"] = before[2]
              /\ updates = e
        /\ pc = "accuracy" =>
              /\ heap["V"] = newV /\ heap["W"] = newW
              /\ updates = e + 1

C12_Witness ==
    /\ pc = "accuracy"
    /\ updates >= 1
    /\ Rows(heap["X"]) >= 2
    /\ DocumentedShapes
    /\ heap["V"] # before[1]
    /\ heap["W"] # before[2]

----------------------------------------------------------------------------
(* Properties of train on both target encodings, checked under             *)
(* SpecEncodings                                                           *)

\* the rows of t whose target is neither -1 nor +1
OtherTargets == {i \in 1..Rows(heap["t"]) : heap["t"][i][1] \notin Labels}

\* C19: if some target is not exactly -1 or +1, no measured accuracy is 1.0,
\* so train never leaves the loop early: when it returns it has run all
\* `epochs` epochs.
C19_OtherEncodingNeverConverges ==
    OtherTargets # {} =>
        /\ ~IsOne(acc)
        /\ acc.total > 0 => acc.wrong >= Cardinality(OtherTargets)
        /\ pc = "done" => updates = self.epochs

C19_Witness ==
    /\ pc = "done"
    /\ self.epochs = MaxEpochs
    /\ updates = self.epochs
    /\ OtherTargets # {}
    /\ Rows(heap["t"]) > Cardinality(OtherTargets)
    /\ acc.total > 0
    /\ acc.wrong = Cardinality(OtherTargets)

----------------------------------------------------------------------------
(* Properties of DeepBeliefNet.train_greedylayerwise, checked under SpecDBN *)

\* the cd1 and save calls of the log, in order
TrainingCalls == SelectSeq(dbn.log, LAMBDA ev : ev[1] \in {"cd1", "save"})

\* how many times `op` was called on RBM `name`
CallCount(op, name) ==
    Cardinality({i \in DOMAIN dbn.log : dbn.log[i] = <<op, name>>})

\* C13: when a load fails with IOError, the call trains each RBM exactly once
\* by CD-1, in the order vis--hid, hid--pen, pen+lbl--top, and saves each
\* right after its own training; when all three loads succeed it neither
\* trains nor saves.
C13_TrainsEachRBMOnce ==
    dbn.pc = "done" =>
        IF dbn.caught
        THEN /\ dbn.raised = ""
             /\ TrainingCalls = << <<"cd1", "vis--hid">>, <<"save", "vis--hid">>,
                                   <<"cd1", "hid--pen">>, <<"save", "hid--pen">>,
                                   <<"cd1", "pen+lbl--top">>,
                                   <<"save", "pen+lbl--top">> >>
        ELSE TrainingCalls = << >>

\* C20: within one call, untwine_weights is invoked at most once on each RBM,
\* whichever load fails.
C20_UntwineAtMostOnce ==
    \A name \in RBMNames : CallCount("untwine", name) <= 1

----------------------------------------------------------------------------
(* Properties of RBFNN.competitive_learning, checked under SpecRBF         *)

\* C14: an iteration of competitive learning (cl_strat 1 or 2) changes only
\* the mean of the winning unit: every unit's variance and every other
\* unit's mean are as the iteration found them.
C14_OnlyWinnerMeanChanges ==
    rbf.pc \in {"loop", "done"} /\ rbf.i >= 0 /\ rbf.raised = "" =>
        \A u \in DOMAIN rbf.H :
            /\ rbf.H[u][2] = rbf.prev[u][2]
            /\ u # rbf.winner => rbf.H[u][1] = rbf.prev[u][1]

----------------------------------------------------------------------------
(* Properties of create_training_examples_and_targets, checked under       *)
(* SpecData                                                                *)

\* C15: for classA and classB of any numbers of rows the call returns X
\* and t row-aligned: X has one row per input point, ending in the constant
\* 1, t has one row per row of X, -1 where the row came from classA and +1
\* where it came from classB.
C15_RowAligned ==
    data.pc = "done" =>
        /\ data.raised = ""
        /\ Rows(data.X) = data.rowsA + data.rowsB
        /\ Rows(data.t) = Rows(data.X)
        /\ \A i \in 1..Rows(data.X) :
              /\ data.X[i][Len(data.X[i])] = One
              /\ data.origin[i] = "A" => data.t[i] = <<-One>>
              /\ data.origin[i] = "B" => data.t[i] = <<One>>

----------------------------------------------------------------------------
(* Properties of Perceptron.train, checked under SpecPerceptron            *)

\* predict(x) = t for every row of the training data, with the current W
PerceptronClassifiesAll ==
    \A i \in 1..Rows(perc.X) :
        <<perceptron_predict(perc.X[i], perc.W)>> = perc.T[i]

\* C16: train stops after the first epoch in which no example was
\* misclassified, and then the final W classifies every example correctly;
\* otherwise it runs exactly `epochs` epochs.
C16_StopsAfterFirstCleanEpoch ==
    /\ perc.pc \notin {"off", "done"} => perc.clean = {} /\ ~perc.broke
    /\ perc.pc = "done" =>
          IF perc.broke
          THEN /\ perc.clean = {perc.e}
               /\ perc.e + 1 <= perc.epochs
               /\ PerceptronClassifiesAll
          ELSE /\ perc.clean = {}
               /\ perc.e + 1 = perc.epochs

\* train corrected W in epoch 0 and stopped after the clean epoch 1
C16_Witness ==
    /\ perc.pc = "done"
    /\ perc.broke
    /\ perc.e = 1
    /\ perc.epochs = MaxEpochs
    /\ Rows(perc.X) = 2
    /\ PerceptronClassifiesAll

----------------------------------------------------------------------------
(* Properties of DeltaClassifier.train, checked under SpecDelta            *)

\* C17: with bias=False, train drops the bias weight and the bias column
\* and trains the 2-element weight vector to completion without error, in
\* batch mode and in sequential mode alike.
C17_NoBiasTrainsToCompletion ==
    delta.pc = "done" /\ ~delta.bias =>
        /\ delta.raised = ""
        /\ Shape(delta.W) = <<2, 1>>
        /\ \A i \in 1..Rows(delta.X) : Len(delta.X[i]) = 2

\* C18: in batch mode train stops early only on an epoch whose weight
\* update is below the convergence threshold in every component.
C18_StopsOnlyOnNegligibleUpdate ==
    delta.pc = "done" /\ delta.batch /\ delta.converged =>
        \A i \in 1..Rows(delta.dW) : Below(delta.dW[i][1], BatchTolerance)

====
